---- MODULE Spec2Model ----
(***************************************************************************)
(* Incremental Structure-from-Motion pipeline of src/SFM.py.               *)
(*                                                                         *)
(* Arrays are sequences of rows; numpy's 0-based indices are kept as       *)
(* values (cm_points, inlier) and turned into 1-based positions only when  *)
(* a row is read (Row).  Real-valued arithmetic is modelled exactly on     *)
(* integer inputs; where numpy divides (np.mean) both sides of the         *)
(* comparison are multiplied by the divisor.                               *)
(***************************************************************************)
EXTENDS Integers, Sequences, FiniteSets, TLC

VARIABLES
    \* one call of a pure method: its arguments and what it returned
    args, ret,
    \* ImageLoader: the matrix read from K.txt, the downscale factor, the
    \* scaled matrix self.K, len(self.image_list)
    K_file, factor, K, image_count,
    \* __call__: its argument, its position, who raised
    bundle_adjustmenet_enabled, pc, raised_by,
    \* __call__: its local variables
    i, total_images, transform_matrix_0, transform_matrix_1,
    pose_0, pose_1, pose_2, pose_array, total_points, total_colors,
    image_1, image_2, features_0, features_1, features_cur, features_2,
    points_3d, cm_mask_0, cm_mask_1,
    \* what __call__ wrote: the .ply vertices and the trajectory file
    ply_file, pose_file,
    \* history: iteration at whose end 'q' was seen (-1: never), the calls of
    \* solve_PnP whose solver found no pose (-1: the bootstrap's), the pose
    \* [R | t] of every view so far, the iteration that appended each cloud
    \* row (-1: none), the number of exports, the arrays of the latest
    \* find_common_points call of the loop with what it returned
    stopped_at, no_pose_at, view_transforms, row_owner, finalize_count,
    link_call

None == "None"

\* ------------------------------------------------------------- bounds
MaxPix == 1      \* largest x pixel coordinate of an observation
MaxPrev == 2     \* most rows of image_points_1
MaxNew == 2      \* most rows of image_points_2 / image_points_3
MaxPts == 5      \* most correspondences handed to solve_PnP
MaxCoord == 3    \* largest parameter t of a 3D point t * (1, 2, 2)
MaxCloud == 4    \* most rows of a point cloud handed to save_to_ply
MaxImages == 4   \* most images in the directory

\* ------------------------------------------------------------ helpers
Range(s) == {s[k] : k \in 1..Len(s)}

SeqsUpTo(S, n) == UNION {[1..k -> S] : k \in 0..n}

\* arr[i] with numpy's 0-based i
Row(arr, at) == arr[at + 1]

\* arr[idx] for an integer index array idx (fancy indexing along axis 0)
Take(arr, idx) == [k \in 1..Len(idx) |-> Row(arr, idx[k])]

\* arr.T of a 2-D array whose rows all have width w
TransposeW(arr, w) == [c \in 1..w |-> [r \in 1..Len(arr) |-> arr[r][c]]]

\* arr.T of a non-empty 2-D array
Transpose(arr) == TransposeW(arr, Len(arr[1]))

\* np.matmul of an m x k and a k x n matrix
MatMul(A, B) ==
    [r \in 1..Len(A) |->
       [c \in 1..Len(B[1]) |->
          LET term[j \in 0..Len(B)] ==
                IF j = 0 THEN 0 ELSE term[j - 1] + A[r][j] * B[j][c]
          IN  term[Len(B)]]]

\* arr.ravel() of a 2-D array whose rows have width w: row-major
Ravel(arr, w) ==
    [k \in 1..(Len(arr) * w) |-> arr[((k - 1) \div w) + 1][((k - 1) % w) + 1]]

\* flat.reshape((len(flat) / w, w))
Reshape(flat, w) ==
    [r \in 1..(Len(flat) \div w) |-> SubSeq(flat, (r - 1) * w + 1, r * w)]

\* np.hstack of two 2-D arrays with the same number of rows
HStack(A, B) == [r \in 1..Len(A) |-> A[r] \o B[r]]

\* the (row, col) cells of an n x 2 array in row-major order, 0-based
Cells(n) == [k \in 1..(2 * n) |-> <<(k - 1) \div 2, (k - 1) % 2>>]

\* ------------------------------------------- find_common_points (4.3)
\* a[0] of  a = np.where(image_points_2 == row): the comparison broadcasts
\* row over the rows of image_points_2 and is elementwise, so a cell is a hit
\* when that one coordinate is equal; a[0] lists the hit cells' rows.
np_where_rows(image_points_2, row) ==
    LET cells == Cells(Len(image_points_2))
        hit(c) == Row(Row(image_points_2, c[1]), c[2]) = Row(row, c[2])
        hits == SelectSeq(cells, hit)
    IN  [k \in 1..Len(hits) |-> hits[k][1]]

LastHit(a0) == a0[Len(a0)]

\* a[0][0]
FirstHit(a0) == a0[1]

\* the for loop of lines 212-216, from row i on
RECURSIVE CommonLoop(_, _, _, _, _)
CommonLoop(image_points_1, image_points_2, row_i, cm_points_1, cm_points_2) ==
    IF row_i >= Len(image_points_1)
    THEN <<cm_points_1, cm_points_2>>
    ELSE LET a0 == np_where_rows(image_points_2, Row(image_points_1, row_i))
         IN  IF Len(a0) # 0
             THEN CommonLoop(image_points_1, image_points_2, row_i + 1,
                             Append(cm_points_1, row_i),
                             Append(cm_points_2, FirstHit(a0)))
             ELSE CommonLoop(image_points_1, image_points_2, row_i + 1,
                             cm_points_1, cm_points_2)

MaskRowsCol0(arr, idx) ==
    [r \in 1..Len(arr) |-> [c \in 1..2 |-> c = 1 /\ (r - 1) \in Range(idx)]]

\* mask = False everywhere, then mask[idx] = True: whole rows
MaskRows(arr, idx) ==
    [r \in 1..Len(arr) |-> [c \in 1..2 |-> (r - 1) \in Range(idx)]]

\* MaskedArray.compressed(): the unmasked elements, flattened row-major
Compressed(arr, mask) ==
    LET cells == Cells(Len(arr))
        keep(c) == ~Row(Row(mask, c[1]), c[2])
        kept == SelectSeq(cells, keep)
    IN  [k \in 1..Len(kept) |-> Row(Row(arr, kept[k][1]), kept[k][2])]

\* flat.reshape(int(flat.shape[0] / 2), 2)
Reshape2(flat) ==
    [r \in 1..(Len(flat) \div 2) |-> <<flat[2 * r - 1], flat[2 * r]>>]

find_common_points(image_points_1, image_points_2, image_points_3) ==
    LET cm == CommonLoop(image_points_1, image_points_2, 0, <<>>, <<>>)
        cm_points_1 == cm[1]
        cm_points_2 == cm[2]
    IN  [cm_points_1 |-> cm_points_1,
         cm_points_2 |-> cm_points_2,
         mask_array_1 |-> Reshape2(Compressed(image_points_2,
                                   MaskRows(image_points_2, cm_points_2))),
         mask_array_2 |-> Reshape2(Compressed(image_points_3,
                                   MaskRows(image_points_3, cm_points_2)))]

\* ---------------------------------------------------- solve_PnP (4.4)
\* 3x4 poses [R | t] an external estimator can return
Transforms ==
    { << <<1, 0, 0, 1>>, <<0, 1, 0, 0>>, <<0, 0, 1, 0>> >>,
      << <<0, -1, 0, 0>>, <<1, 0, 0, 1>>, <<0, 0, 1, 0>> >> }

\* cv2.solvePnPRansac asserts at least this many points
MinPnPPoints == 4

\* strictly increasing 0-based index lists over n rows, as an (m, 1) array
InlierLists(n) ==
    { LET in(j) == j \in S
      IN  [k \in 1..Cardinality(S) |->
             <<SelectSeq([j \in 1..n |-> j - 1], in)[k]>>] :
        S \in (SUBSET (0..(n - 1))) \ {{}} }

\* What cv2.solvePnPRansac followed by cv2.Rodrigues can give for n points:
\* an exception (too few points), a pose with its inlier list, or no pose
\* (retval False, inliers released, rvec/tvec whatever the solver left there).
SolvePnPRansacResults(n) ==
    IF n < MinPnPPoints
    THEN {[raised |-> TRUE]}
    ELSE {[raised |-> FALSE, retval |-> TRUE, pose |-> T,
           inlier_is_None |-> FALSE, inlier |-> idx] :
            T \in Transforms, idx \in InlierLists(n)}
         \cup
         {[raised |-> FALSE, retval |-> FALSE, pose |-> T,
           inlier_is_None |-> TRUE, inlier |-> <<>>] :
            T \in Transforms}

\* inlier[:, 0]
Column0(inlier) == [k \in 1..Len(inlier) |-> inlier[k][1]]

\* obj_point[:, 0, :]
Slice0(obj_point) == [r \in 1..Len(obj_point) |-> obj_point[r][1]]

PruneAuxNot(rot_vector, inlier) == rot_vector

\* rot_vector[inlier[:, 0]]
PruneAux(rot_vector, inlier) == Take(rot_vector, Column0(inlier))

\* lines 176-179: the arrays as the solver sees them
PnPInputs(obj_point, image_point, rot_vector, initial) ==
    IF initial = 1
    THEN [obj_point |-> Slice0(obj_point),
          image_point |-> Transpose(image_point),
          rot_vector |-> Transpose(rot_vector)]
    ELSE [obj_point |-> obj_point, image_point |-> image_point,
          rot_vector |-> rot_vector]

\* solve_PnP with the external solver's answer as `solved`
solve_PnP(obj_point, image_point, rot_vector, initial, solved) ==
    LET in == PnPInputs(obj_point, image_point, rot_vector, initial)
    IN  IF solved.raised
        THEN [raised |-> TRUE]
        ELSE [raised |-> FALSE,
              retval |-> solved.retval,
              rot_matrix |-> [r \in 1..3 |-> SubSeq(solved.pose[r], 1, 3)],
              tran_vector |-> [r \in 1..3 |-> <<solved.pose[r][4]>>],
              image_point |-> IF ~solved.inlier_is_None
                              THEN Take(in.image_point, Column0(solved.inlier))
                              ELSE in.image_point,
              obj_point |-> IF ~solved.inlier_is_None
                            THEN Take(in.obj_point, Column0(solved.inlier))
                            ELSE in.obj_point,
              rot_vector |-> IF ~solved.inlier_is_None
                             THEN PruneAux(in.rot_vector, solved.inlier)
                             ELSE in.rot_vector]

\* --------------------------------------------------- save_to_ply (4.7)
ScaleFactor == 200

OutlierMargin == 300

\* sum of the entries of a sequence of integers
RECURSIVE SumSeq(_)
SumSeq(s) == IF Len(s) = 0 THEN 0 ELSE s[1] + SumSeq(Tail(s))

\* the largest r in lo..hi with r * r <= x
RECURSIVE SqrtSearch(_, _, _)
SqrtSearch(x, lo, hi) ==
    IF lo >= hi
    THEN lo
    ELSE LET mid == (lo + hi + 1) \div 2
         IN  IF mid * mid <= x
             THEN SqrtSearch(x, mid, hi)
             ELSE SqrtSearch(x, lo, mid - 1)

\* np.sqrt on the perfect squares the point domain produces (no rounding:
\* it has no value on anything else)
Sqrt(x) == LET r == SqrtSearch(x, 0, 46340) IN CHOOSE q \in {r} : q * q = x

\* n * (row - mean of rows), for n rows of width 3: the centred row with the
\* division by n of np.mean multiplied out
CentredTimesN(points, r) ==
    LET n == Len(points)
    IN  [c \in 1..3 |->
           n * points[r][c] - SumSeq([q \in 1..n |-> points[q][c]])]

\* n * dist[r] of line 357
DistTimesN(points, r) ==
    LET v == CentredTimesN(points, r)
    IN  Sqrt(v[1] * v[1] + v[2] * v[2] + v[3] * v[3])

WithinOrOn(nd, sumnd, n) == n * nd <= sumnd + OutlierMargin * n * n

\* dist < np.mean(dist) + 300 with nd = n * dist and sumnd = n * sum(dist),
\* both sides multiplied by n * n
Within(nd, sumnd, n) == n * nd < sumnd + OutlierMargin * n * n

\* lines 350-359 and the vertex count of the header: the rows written
save_to_ply(point_cloud, colors) ==
    LET n == Len(point_cloud)
        out_points == [r \in 1..n |->
                         [c \in 1..3 |-> point_cloud[r][c] * ScaleFactor]]
        verts == [r \in 1..n |-> out_points[r] \o colors[r]]
        nd == [r \in 1..n |-> DistTimesN(out_points, r)]
        keep(r) == Within(nd[r + 1], SumSeq(nd), n)
        indx == SelectSeq([r \in 1..n |-> r - 1], keep)
        kept == Take(verts, indx)
    IN  [vertex_count |-> Len(kept), verts |-> kept]

\* ------------------------------------------------------ ImageLoader
downscale_twice(Kmat, f) ==
    [r \in 1..3 |->
       [c \in 1..3 |->
          IF <<r, c>> \in {<<1, 1>>, <<2, 2>>, <<1, 3>>, <<2, 3>>}
          THEN Kmat[r][c] \div (f * f)
          ELSE Kmat[r][c]]]

\* lines 70-73 on the matrix read from K.txt
downscale_instrinsics(Kmat, f) ==
    [r \in 1..3 |->
       [c \in 1..3 |->
          IF <<r, c>> \in {<<1, 1>>, <<2, 2>>, <<1, 3>>, <<2, 3>>}
          THEN Kmat[r][c] \div f
          ELSE Kmat[r][c]]]

\* --------------------------------------------- external capabilities
\* The scene the images show: image v and image v + 1 share the tracks
\* 2v+1 .. 2v+7; the matcher may miss one of them, or pick for the last one
\* a keypoint of image v in the pixel column of another track's keypoint.
MatchVariants == {"all", "miss", "near"}

MatchedTracks(v, variant) ==
    LET seen(k) == variant # "miss" \/ k # 2 * v + 4
    IN  SelectSeq([j \in 1..7 |-> 2 * v + j], seen)

\* the keypoint (x, y) of track k in image v
Obs(v, k) == <<3 * k + v, 2 * k + v>>

\* feature_matching(image v, image v + 1): two index-aligned N x 2 arrays
feature_matching(v, variant) ==
    LET tracks == MatchedTracks(v, variant)
    IN  <<[j \in 1..Len(tracks) |->
             IF variant = "near" /\ tracks[j] = 2 * v + 7
             THEN <<Obs(v, 2 * v)[1], Obs(v, tracks[j])[2]>>
             ELSE Obs(v, tracks[j])],
          [j \in 1..Len(tracks) |-> Obs(v + 1, tracks[j])]>>

\* image[row, col] of image v: a (blue, green, red) triple
Pixel(v, row, col) == <<v, row, col>>

\* inlier masks of cv2.findEssentialMat (0/1) and cv2.recoverPose (0/255)
MaskKinds == {"all", "drop"}

EssentialMask(n, kind) ==
    [r \in 1..n |-> IF kind = "drop" /\ r = n THEN 0 ELSE 1]

RecoverMask(n, kind) ==
    [r \in 1..n |-> IF kind = "drop" /\ r = 1 THEN 0 ELSE 255]

\* arr[flags] for a boolean vector
SelectWhere(arr, flags) ==
    LET on(r) == flags[r + 1]
    IN  Take(arr, SelectSeq([r \in 1..Len(arr) |-> r - 1], on))

\* cv2.triangulatePoints(P0, P1, pts0, pts1) with 2 x N points: a 4 x N array
\* of homogeneous points, one column per correspondence, a function of its
\* inputs; the points lie on the line t * (1, 2, 2) with weight 2
triangulatePoints(P0, P1, pts0, pts1) ==
    LET n == Len(pts0[1])
        t(c) == (pts0[1][c] + pts1[1][c] + P1[1][4]) % (MaxCoord + 1)
    IN  << [c \in 1..n |-> 2 * t(c)], [c \in 1..n |-> 4 * t(c)],
           [c \in 1..n |-> 4 * t(c)], [c \in 1..n |-> 2] >>

\* cv2.convertPointsFromHomogeneous of an N x 4 array: N x 1 x 3
convertPointsFromHomogeneous(pts) ==
    [r \in 1..Len(pts) |->
       << <<pts[r][1] \div pts[r][4], pts[r][2] \div pts[r][4],
            pts[r][3] \div pts[r][4]>> >>]

\* the driver's share of SolvePnPRansacResults(n): the pose of view v with
\* every row or every row but the first as inliers, or no pose and whatever
\* the solver left in rvec and tvec
ViewPose(v) ==
    IF v % 2 = 1
    THEN << <<1, 0, 0, 1>>, <<0, 1, 0, 0>>, <<0, 0, 1, 0>> >>
    ELSE << <<0, -1, 0, 0>>, <<1, 0, 0, 1>>, <<0, 0, 1, 0>> >>

DriverSolved(n, v) ==
    IF n < MinPnPPoints
    THEN {[raised |-> TRUE]}
    ELSE {[raised |-> FALSE, retval |-> TRUE, pose |-> ViewPose(v),
           inlier_is_None |-> FALSE,
           inlier |-> [k \in 1..(n - d) |-> <<k - 1 + d>>]] :
            d \in IF n > MinPnPPoints THEN {0, 1} ELSE {0}}
         \cup
         {[raised |-> FALSE, retval |-> FALSE, pose |-> T,
           inlier_is_None |-> TRUE, inlier |-> <<>>] : T \in Transforms}

\* ------------------------------------------------- triangulation (128)
\* called with the poses first and the N x 2 points last, as the driver does
triangulation(pts_2d_1, pts_2d_2, proj_matrix_1, proj_matrix_2) ==
    LET point_cloud == triangulatePoints(pts_2d_1, pts_2d_2,
                                         Transpose(proj_matrix_1),
                                         Transpose(proj_matrix_2))
    IN  <<Transpose(proj_matrix_1), Transpose(proj_matrix_2),
          [r \in 1..4 |->
             [c \in 1..Len(point_cloud[r]) |->
                point_cloud[r][c] \div point_cloud[4][c]]]>>

\* the object points reproj_error returns (its error is only printed and
\* plotted)
reproj_error(obj_points, homogenity) ==
    IF homogenity = 1
    THEN convertPointsFromHomogeneous(Transpose(obj_points))
    ELSE obj_points

\* ------------------------------------- compute_bundle_adjustment (4.6)
\* the parameters scipy.optimize.least_squares accepts by keyword
LeastSquaresParameters ==
    {"fun", "x0", "jac", "bounds", "method", "ftol", "xtol", "gtol",
     "x_scale", "loss", "f_scale", "diff_step", "tr_solver", "tr_options",
     "jac_sparsity", "max_nfev", "verbose", "args", "kwargs"}

\* least_squares(fun, x0, **keywords): a TypeError for a keyword it does not
\* have, else one of its best-effort vectors (the start vector, or one that
\* moved the pose)
least_squares(x0, keywords) ==
    IF keywords \subseteq LeastSquaresParameters
    THEN {[raised |-> FALSE, x |-> x] :
            x \in {x0, [x0 EXCEPT ![4] = @ + 1]}}
    ELSE {[raised |-> TRUE]}

compute_bundle_adjustment(_3d_point, opt, transform_matrix_new, Kmat) ==
    LET opt_variables ==
            Ravel(transform_matrix_new, 4) \o Ravel(Kmat, 3)
            \o Ravel(opt, Len(opt[1])) \o Ravel(Slice0(_3d_point), 3)
    IN  { IF solved.raised
          THEN [raised |-> TRUE]
          ELSE LET x == solved.x
                   rest == (2 * (Len(x) - 21)) \div 5
               IN  [raised |-> FALSE,
                    points_3d |-> Reshape(SubSeq(x, 22 + rest, Len(x)), 3),
                    opt |-> Transpose(Reshape(SubSeq(x, 22, 21 + rest),
                                              rest \div 2)),
                    transform_matrix |-> Reshape(SubSeq(x, 1, 12), 4)] :
            solved \in least_squares(opt_variables, {"g_tolrance"}) }

callVars == <<args, ret>>

loaderVars == <<K_file, factor, K, image_count>>

driverVars ==
    <<bundle_adjustmenet_enabled, pc, raised_by, i, total_images,
      transform_matrix_0, transform_matrix_1, pose_0, pose_1, pose_2,
      pose_array, total_points, total_colors, image_1, image_2,
      features_0, features_1, features_cur, features_2, points_3d,
      cm_mask_0, cm_mask_1, ply_file, pose_file,
      stopped_at, no_pose_at, view_transforms, row_owner, finalize_count, link_call>>

vars == <<callVars, loaderVars, driverVars>>

\* the driver is not running: a specification of one pure method
DriverOff ==
    /\ K_file = <<>> /\ factor = 1 /\ K = <<>> /\ image_count = 0
    /\ bundle_adjustmenet_enabled = FALSE /\ pc = "idle" /\ raised_by = ""
    /\ i = 0 /\ total_images = 0
    /\ transform_matrix_0 = <<>> /\ transform_matrix_1 = <<>>
    /\ pose_0 = <<>> /\ pose_1 = <<>> /\ pose_2 = <<>> /\ pose_array = <<>>
    /\ total_points = <<>> /\ total_colors = <<>>
    /\ image_1 = 0 /\ image_2 = 0
    /\ features_0 = <<>> /\ features_1 = <<>>
    /\ features_cur = <<>> /\ features_2 = <<>>
    /\ points_3d = <<>> /\ cm_mask_0 = <<>> /\ cm_mask_1 = <<>>
    /\ ply_file = <<>> /\ pose_file = <<>>
    /\ stopped_at = -1 /\ no_pose_at = {} /\ view_transforms = <<>>
    /\ row_owner = <<>> /\ finalize_count = 0
    /\ link_call = [called |-> FALSE]

\* ------------------------------------------- calls of find_common_points
Pixels == {<<x, y>> : x \in 0..MaxPix, y \in {0, 1}}

\* observations of the newly introduced view, n rows
NewView(n, v) == [j \in 1..n |-> <<v + j, v>>]

LinkerInit ==
    /\ args \in {[fn |-> "find_common_points",
                  image_points_1 |-> p1,
                  image_points_2 |-> p2,
                  image_points_3 |-> NewView(Len(p2), v)] :
                    p1 \in SeqsUpTo(Pixels, MaxPrev),
                    p2 \in SeqsUpTo(Pixels, MaxNew) \ {<<>>},
                    v \in {5, 6}}
    /\ ret = [done |-> FALSE]
    /\ DriverOff

LinkerCall ==
    /\ args.fn = "find_common_points"
    /\ ~ret.done
    /\ ret' = [done |-> TRUE,
               out |-> find_common_points(args.image_points_1,
                                          args.image_points_2,
                                          args.image_points_3)]
    /\ UNCHANGED <<args, loaderVars, driverVars>>

SpecLinker == LinkerInit /\ [][LinkerCall]_vars

\* --------------------------------------------------- calls of solve_PnP
\* index-aligned inputs of n rows; row j of each array is distinct
ObjRows(n, b) == [j \in 1..n |-> <<b + j, j, 1>>]
ImgRows(n, b) == [j \in 1..n |-> <<b + j, 2 * j>>]
AuxRows(n, b) == [j \in 1..n |-> <<b + 2 * j, j>>]

PnPInit ==
    /\ args \in
         {[fn |-> "solve_PnP", initial |-> 0, n |-> n,
           obj_point |-> ObjRows(n, b[1]),
           image_point |-> ImgRows(n, b[2]),
           rot_vector |-> AuxRows(n, b[3])] :
             n \in (MinPnPPoints - 1)..MaxPts, b \in [1..3 -> {0, 1}]}
         \cup
         \* the bootstrap's layout: N x 1 x 3 points, 2 x N observations
         {[fn |-> "solve_PnP", initial |-> 1, n |-> n,
           obj_point |-> [j \in 1..n |-> <<ObjRows(n, b[1])[j]>>],
           image_point |-> TransposeW(ImgRows(n, b[2]), 2),
           rot_vector |-> TransposeW(AuxRows(n, b[3]), 2)] :
             n \in (MinPnPPoints - 1)..MaxPts, b \in [1..3 -> {0, 1}]}
    /\ ret = [done |-> FALSE]
    /\ DriverOff

PnPCall ==
    /\ args.fn = "solve_PnP"
    /\ ~ret.done
    /\ \E solved \in SolvePnPRansacResults(args.n) :
         ret' = [done |-> TRUE, solved |-> solved,
                 out |-> solve_PnP(args.obj_point, args.image_point,
                                   args.rot_vector, args.initial, solved)]
    /\ UNCHANGED <<args, loaderVars, driverVars>>

SpecPnP == PnPInit /\ [][PnPCall]_vars

\* ------------------------------------------------- calls of save_to_ply
\* 3D points on the line t * (1, 2, 2): every distance between them, and to
\* their centroid times the row count, is an integer
LinePoint(t) == <<t, 2 * t, 2 * t>>

\* the colour row sampled for row j
ColourOf(j) == <<j, j + 1, j + 2>>

PlyInit ==
    /\ args \in {[fn |-> "save_to_ply",
                  point_cloud |-> [j \in 1..Len(ts) |-> LinePoint(ts[j])],
                  colors |-> [j \in 1..Len(ts) |-> ColourOf(j)]] :
                    ts \in SeqsUpTo(0..MaxCoord, MaxCloud) \ {<<>>}}
    /\ ret = [done |-> FALSE]
    /\ DriverOff

PlyCall ==
    /\ args.fn = "save_to_ply"
    /\ ~ret.done
    /\ ret' = [done |-> TRUE,
               out |-> save_to_ply(args.point_cloud, args.colors)]
    /\ UNCHANGED <<args, loaderVars, driverVars>>

SpecPly == PlyInit /\ [][PlyCall]_vars

\* ======================================================== the driver
\* K.txt of the data set and the downscale factors tried
KFiles == { << <<16, 0, 8>>, <<0, 16, 12>>, <<0, 0, 1>> >> }

Factors == {2, 4}

\* StructurefromMotion(img_dir, downscale_factor) has been constructed and
\* __call__(bundle_adjustmenet_enabled) is about to run
Init ==
    /\ args = [fn |-> "__call__"]
    /\ ret = [done |-> FALSE]
    /\ K_file \in KFiles
    /\ factor \in Factors
    /\ K = downscale_instrinsics(K_file, factor)
    /\ image_count \in 2..MaxImages
    /\ bundle_adjustmenet_enabled \in BOOLEAN
    /\ pc = "bootstrap" /\ raised_by = ""
    /\ i = 0 /\ total_images = 0
    /\ transform_matrix_0 = <<>> /\ transform_matrix_1 = <<>>
    /\ pose_0 = <<>> /\ pose_1 = <<>> /\ pose_2 = <<>> /\ pose_array = <<>>
    /\ total_points = <<>> /\ total_colors = <<>>
    /\ image_1 = 0 /\ image_2 = 0
    /\ features_0 = <<>> /\ features_1 = <<>>
    /\ features_cur = <<>> /\ features_2 = <<>>
    /\ points_3d = <<>> /\ cm_mask_0 = <<>> /\ cm_mask_1 = <<>>
    /\ ply_file = <<>> /\ pose_file = <<>>
    /\ stopped_at = -1 /\ no_pose_at = {} /\ view_transforms = <<>>
    /\ row_owner = <<>> /\ finalize_count = 0
    /\ link_call = [called |-> FALSE]

\* an exception leaves __call__: nothing is written
Raise(by) ==
    /\ pc' = "raised"
    /\ raised_by' = by
    /\ UNCHANGED <<i, total_images, transform_matrix_0, transform_matrix_1,
                   pose_0, pose_1, pose_2, pose_array, total_points,
                   total_colors, image_1, image_2, features_0, features_1,
                   features_cur, features_2, points_3d, cm_mask_0, cm_mask_1,
                   ply_file, pose_file, stopped_at, no_pose_at,
                   view_transforms, row_owner, finalize_count, link_call>>

\* np.hstack((pose_array, pose.ravel())) of lines 422 and 448
AppendPose(arr, pose) == arr \o Ravel(pose, 4)

\* where the for statement of line 426 goes from its head with index `next`
LoopHead(next, total) == IF next < total THEN "link" ELSE "finalize"

\* lines 386-417: everything the bootstrap computes before its PnP pass
BootstrapGeometry(Kmat, variant, e_kind, r_kind, rel) ==
    LET T0 == << <<1, 0, 0, 0>>, <<0, 1, 0, 0>>, <<0, 0, 1, 0>> >>
        R0 == [r \in 1..3 |-> SubSeq(T0[r], 1, 3)]
        P0 == MatMul(Kmat, T0)
        matched == feature_matching(0, variant)
        e_mask == EssentialMask(Len(matched[1]), e_kind)
        e_on == [r \in 1..Len(e_mask) |-> e_mask[r] = 1]
        f0_e == SelectWhere(matched[1], e_on)
        f1_e == SelectWhere(matched[2], e_on)
        r_mask == RecoverMask(Len(f0_e), r_kind)
        r_on == [r \in 1..Len(r_mask) |-> r_mask[r] > 0]
        f0_r == SelectWhere(f0_e, r_on)
        f1_r == SelectWhere(f1_e, r_on)
        rot_matrix == [r \in 1..3 |-> SubSeq(rel[r], 1, 3)]
        tran_matrix == [r \in 1..3 |-> <<rel[r][4]>>]
        T1 == HStack(MatMul(rot_matrix, R0),
                     [r \in 1..3 |->
                        <<T0[r][4] + MatMul(R0, tran_matrix)[r][1]>>])
        P1 == MatMul(Kmat, T1)
        tri == triangulation(P0, P1, f0_r, f1_r)
    IN  [transform_matrix_0 |-> T0, transform_matrix_1 |-> T1,
         pose_0 |-> P0, pose_1 |-> P1,
         features_0 |-> tri[1], features_1 |-> tri[2],
         points_3d |-> reproj_error(tri[3], 1)]

\* lines 384-422: the first two images
Bootstrap ==
    /\ pc = "bootstrap"
    /\ \E variant \in MatchVariants, e_kind \in MaskKinds,
          r_kind \in MaskKinds, rel \in Transforms :
        \E g \in {BootstrapGeometry(K, variant, e_kind, r_kind, rel)} :
         \E solved \in DriverSolved(Len(g.points_3d), 1) :
          \E pnp \in {solve_PnP(g.points_3d, g.features_1, g.features_0, 1,
                                solved)} :
            IF pnp.raised
            THEN Raise("solve_PnP")
            ELSE /\ transform_matrix_0' = g.transform_matrix_0
                 /\ transform_matrix_1' = g.transform_matrix_1
                 /\ pose_0' = g.pose_0
                 /\ pose_1' = g.pose_1
                 /\ total_points' = << <<0, 0, 0>> >>
                 /\ total_colors' = << <<0, 0, 0>> >>
                 /\ features_0' = g.features_0
                 /\ features_1' = pnp.image_point
                 /\ points_3d' = pnp.obj_point
                 /\ total_images' = image_count - 2
                 /\ pose_array' = AppendPose(AppendPose(Ravel(K, 3),
                                                        g.pose_0), g.pose_1)
                 /\ image_1' = 1
                 /\ i' = 0
                 /\ pc' = LoopHead(0, image_count - 2)
                 /\ no_pose_at' = IF pnp.retval THEN {} ELSE {-1}
                 /\ view_transforms' = <<g.transform_matrix_0,
                                         g.transform_matrix_1>>
                 /\ row_owner' = <<-1>>
                 /\ UNCHANGED <<raised_by, pose_2, image_2, features_cur,
                                features_2, cm_mask_0, cm_mask_1, ply_file,
                                pose_file, stopped_at, finalize_count, link_call>>
    /\ UNCHANGED <<callVars, loaderVars, bundle_adjustmenet_enabled>>

\* lines 427-437: the new matches, the previous pair re-triangulated from
\* the second iteration on, and the links between the two
LinkGeometry(it, image, p0, p1, f0_in, f1_in, p3_in, variant) ==
    LET matched == feature_matching(image, variant)
        again == triangulation(p0, p1, f0_in, f1_in)
        f0 == IF it # 0 THEN again[1] ELSE f0_in
        f1 == IF it # 0 THEN Transpose(again[2]) ELSE f1_in
        p3 == IF it # 0
              THEN convertPointsFromHomogeneous(Transpose(again[3]))
              ELSE p3_in
        cm == find_common_points(f1, matched[1], matched[2])
        cm_points_0 == cm.cm_points_1
        cm_points_1 == cm.cm_points_2
    IN  [features_cur |-> matched[1], features_2 |-> matched[2],
         features_0 |-> f0, features_1 |-> f1, points_3d |-> p3,
         cm_points_0 |-> cm_points_0, cm_points_1 |-> cm_points_1,
         cm_mask_0 |-> cm.mask_array_1, cm_mask_1 |-> cm.mask_array_2,
         cm_points_2 |-> Take(matched[2], cm_points_1),
         cm_points_cur |-> Take(matched[1], cm_points_1),
         obj_point |-> Take(p3, cm_points_0)]

\* lines 427-441: match the next image, link its tracks, estimate its pose
LinkStep ==
    /\ pc = "link"
    /\ \E variant \in MatchVariants :
        \E g \in {LinkGeometry(i, image_1, pose_0, pose_1, features_0,
                               features_1, points_3d, variant)} :
         \E solved \in DriverSolved(Len(g.obj_point), i + 2) :
          \E pnp \in {solve_PnP(g.obj_point, g.cm_points_2, g.cm_points_cur,
                                0, solved)} :
            IF pnp.raised
            THEN Raise("solve_PnP")
            ELSE \E T1 \in {HStack(pnp.rot_matrix, pnp.tran_vector)} :
                 /\ image_2' = i + 2
                 /\ features_cur' = g.features_cur
                 /\ features_2' = g.features_2
                 /\ features_0' = g.features_0
                 /\ features_1' = g.features_1
                 /\ cm_mask_0' = g.cm_mask_0
                 /\ cm_mask_1' = g.cm_mask_1
                 /\ points_3d' = pnp.obj_point
                 /\ transform_matrix_1' = T1
                 /\ pose_2' = MatMul(K, T1)
                 /\ pc' = "triangulate"
                 /\ link_call' = [called |-> TRUE, image |-> image_1,
                                   features_1 |-> g.features_1,
                                   points_3d |-> g.points_3d,
                                   features_cur |-> g.features_cur,
                                   features_2 |-> g.features_2,
                                   cm_points_0 |-> g.cm_points_0,
                                   cm_points_1 |-> g.cm_points_1,
                                   obj_point |-> g.obj_point,
                                   cm_points_2 |-> g.cm_points_2,
                                   cm_points_cur |-> g.cm_points_cur]
                 /\ no_pose_at' = IF pnp.retval THEN no_pose_at
                                  ELSE no_pose_at \cup {i}
                 /\ UNCHANGED <<raised_by, i, total_images,
                                transform_matrix_0, pose_0, pose_1,
                                pose_array, total_points, total_colors,
                                image_1, ply_file, pose_file, stopped_at,
                                view_transforms, row_owner, finalize_count>>
    /\ UNCHANGED <<callVars, loaderVars, bundle_adjustmenet_enabled>>

\* lines 443-448: triangulate the novel points, record the new pose
TriangulateStep ==
    /\ pc = "triangulate"
    /\ \E tri \in {triangulation(pose_1, pose_2, cm_mask_0, cm_mask_1)} :
           /\ cm_mask_0' = tri[1]
           /\ cm_mask_1' = tri[2]
           /\ points_3d' = reproj_error(tri[3], 1)
    /\ pose_array' = AppendPose(pose_array, pose_2)
    /\ pc' = "refine"
    /\ UNCHANGED <<callVars, loaderVars, bundle_adjustmenet_enabled,
                   raised_by, i, total_images, transform_matrix_0,
                   transform_matrix_1, pose_0, pose_1, pose_2, total_points,
                   total_colors, image_1, image_2, features_0, features_1,
                   features_cur, features_2, ply_file, pose_file, stopped_at,
                   no_pose_at, view_transforms, row_owner, finalize_count, link_call>>

\* [image_2[l[1], l[0]] for l in rows]
color_vector(rows) ==
    [r \in 1..Len(rows) |-> Pixel(image_2, rows[r][2], rows[r][1])]

\* lines 450-463: refine if asked to, then append points and colours
RefineStep ==
    /\ pc = "refine"
    /\ IF bundle_adjustmenet_enabled
       THEN \E ba \in compute_bundle_adjustment(points_3d, cm_mask_1,
                                                  transform_matrix_1, K) :
                IF ba.raised
                THEN Raise("compute_bundle_adjustment")
                ELSE /\ points_3d' = ba.points_3d
                     /\ cm_mask_1' = ba.opt
                     /\ transform_matrix_1' = ba.transform_matrix
                     /\ pose_2' = MatMul(K, ba.transform_matrix)
                     /\ total_points' = total_points \o ba.points_3d
                     /\ total_colors' = total_colors \o color_vector(ba.opt)
                     /\ row_owner' = row_owner
                                       \o [r \in 1..Len(ba.points_3d) |-> i]
                     /\ pc' = "advance"
                     /\ UNCHANGED <<raised_by, i, total_images,
                                    transform_matrix_0, pose_0, pose_1,
                                    pose_array, image_1, image_2, features_0,
                                    features_1, features_cur, features_2,
                                    cm_mask_0, ply_file, pose_file,
                                    stopped_at, no_pose_at, view_transforms,
                                    finalize_count, link_call>>
       ELSE /\ total_points' = total_points \o Slice0(points_3d)
            /\ total_colors' = total_colors
                                 \o color_vector(Transpose(cm_mask_1))
            /\ row_owner' = row_owner \o [r \in 1..Len(points_3d) |-> i]
            /\ pc' = "advance"
            /\ UNCHANGED <<raised_by, i, total_images, transform_matrix_0,
                           transform_matrix_1, pose_0, pose_1, pose_2,
                           pose_array, image_1, image_2, features_0,
                           features_1, features_cur, features_2, points_3d,
                           cm_mask_0, cm_mask_1, ply_file, pose_file,
                           stopped_at, no_pose_at, view_transforms,
                           finalize_count, link_call>>
    /\ UNCHANGED <<callVars, loaderVars, bundle_adjustmenet_enabled>>

ContinueAfterKey(key_q, next, total) == LoopHead(next, total)

\* lines 476-477 and the loop head: 'q' breaks, else the next index
AfterKey(key_q, next, total) ==
    IF key_q THEN "finalize" ELSE LoopHead(next, total)

\* lines 465-468: the previous pose slots take the current ones, the error is
\* plotted, and plt.pause starts running the GUI event loop
ShiftPoseStep ==
    /\ pc = "advance"
    /\ transform_matrix_0' = transform_matrix_1
    /\ pose_0' = pose_1
    /\ pc' = "pause"
    /\ UNCHANGED <<callVars, loaderVars, bundle_adjustmenet_enabled,
                   raised_by, i, total_images, transform_matrix_1, pose_1,
                   pose_2, pose_array, total_points, total_colors, image_1,
                   image_2, features_0, features_1, features_cur, features_2,
                   points_3d, cm_mask_0, cm_mask_1, ply_file, pose_file,
                   stopped_at, no_pose_at, view_transforms, row_owner,
                   finalize_count, link_call>>

\* lines 468-476: plt.pause returns, the window shifts by one image, the
\* image is shown, and cv2.waitKey starts polling; plt.pause and cv2.imshow
\* can fail (no display, window closed)
ShiftWindowStep ==
    /\ pc = "pause"
    /\ \E failing \in {"none", "plt.pause", "cv2.imshow"} :
         IF failing = "plt.pause"
         THEN Raise(failing)
         ELSE /\ image_1' = image_2
              /\ features_0' = features_cur
              /\ features_1' = features_2
              /\ pose_1' = pose_2
              /\ view_transforms' = Append(view_transforms,
                                           transform_matrix_1)
              /\ pc' = IF failing = "none" THEN "poll" ELSE "raised"
              /\ raised_by' = IF failing = "none" THEN raised_by ELSE failing
              /\ UNCHANGED <<i, total_images, transform_matrix_0,
                             transform_matrix_1, pose_0, pose_2, pose_array,
                             total_points, total_colors, image_2,
                             features_cur, features_2, points_3d, cm_mask_0,
                             cm_mask_1, ply_file, pose_file, stopped_at,
                             no_pose_at, row_owner, finalize_count,
                             link_call>>
    /\ UNCHANGED <<callVars, loaderVars, bundle_adjustmenet_enabled>>

\* lines 476-477 and the loop head: cv2.waitKey returns a key or fails
PollKeyStep ==
    /\ pc = "poll"
    /\ \/ \E key_q \in BOOLEAN :
            /\ pc' = AfterKey(key_q, i + 1, total_images)
            /\ i' = IF pc' = "link" THEN i + 1 ELSE i
            /\ stopped_at' = IF key_q THEN i ELSE stopped_at
            /\ UNCHANGED <<raised_by, total_images, transform_matrix_0,
                           transform_matrix_1, pose_0, pose_1, pose_2,
                           pose_array, total_points, total_colors, image_1,
                           image_2, features_0, features_1, features_cur,
                           features_2, points_3d, cm_mask_0, cm_mask_1,
                           ply_file, pose_file, no_pose_at, view_transforms,
                           row_owner, finalize_count, link_call>>
       \/ Raise("cv2.waitKey")
    /\ UNCHANGED <<callVars, loaderVars, bundle_adjustmenet_enabled>>

\* lines 478-498: write the point cloud and the trajectory
Finalize ==
    /\ pc = "finalize"
    /\ ply_file' = save_to_ply(total_points, total_colors)
    /\ pose_file' = pose_array
    /\ finalize_count' = finalize_count + 1
    /\ pc' = "done"
    /\ UNCHANGED <<callVars, loaderVars, bundle_adjustmenet_enabled,
                   raised_by, i, total_images, transform_matrix_0,
                   transform_matrix_1, pose_0, pose_1, pose_2, pose_array,
                   total_points, total_colors, image_1, image_2, features_0,
                   features_1, features_cur, features_2, points_3d,
                   cm_mask_0, cm_mask_1, stopped_at, no_pose_at,
                   view_transforms, row_owner, link_call>>

Next ==
    \/ Bootstrap
    \/ LinkStep
    \/ TriangulateStep
    \/ RefineStep
    \/ ShiftPoseStep
    \/ ShiftWindowStep
    \/ PollKeyStep
    \/ Finalize

Spec == Init /\ [][Next]_vars

\* ================================================================ claims
LinkerDone == args.fn = "find_common_points" /\ ret.done

\* the 0-based indices 0..n-1 that are not in `known`, in increasing order
Complement(n, known) ==
    LET all == [j \in 1..n |-> j - 1]
        novel(j) == j \notin known
    IN  SelectSeq(all, novel)

\* C1: the rows of the new pair split into the rows whose index is returned in
\* cm_points_2 (known) and the rows carried forward in mask_array_1 and
\* mask_array_2 (novel, in order); the two index sets are disjoint and cover
\* 0..len(Q)-1, so both mask arrays have len(Q) - |set(cm_points_2)| rows.
C1_Partition ==
    LinkerDone =>
        LET Q == args.image_points_2
            R == args.image_points_3
            known == Range(ret.out.cm_points_2)
            novel == Complement(Len(Q), known)
        IN  /\ known \subseteq 0..(Len(Q) - 1)
            /\ Len(ret.out.mask_array_1) = Len(Q) - Cardinality(known)
            /\ Len(ret.out.mask_array_2) = Len(Q) - Cardinality(known)
            /\ ret.out.mask_array_1 = Take(Q, novel)
            /\ ret.out.mask_array_2 = Take(R, novel)

C1_Witness ==
    /\ LinkerDone
    /\ Len(args.image_points_2) = 2
    /\ Len(ret.out.cm_points_2) > 0
    /\ Len(ret.out.mask_array_1) = 1
    /\ ret.out.mask_array_1[1] = args.image_points_2[1]

\* C2: every returned pair (cm_points_1[k], cm_points_2[k]) names two
\* observations that are the same 2D point, equal in x and in y, and a previous
\* index is returned only if the new pair holds a fully equal observation.
C2_ExactMatch ==
    LinkerDone =>
        LET P == args.image_points_1
            Q == args.image_points_2
            cm1 == ret.out.cm_points_1
            cm2 == ret.out.cm_points_2
        IN  /\ \A k \in 1..Len(cm1) : Row(P, cm1[k]) = Row(Q, cm2[k])
            /\ \A k \in 1..Len(cm1) :
                 \E j \in 0..(Len(Q) - 1) : Row(Q, j) = Row(P, cm1[k])

\* C3 as stated: no new-pair index is returned twice in cm_points_2.
C3_NoRepeatedNewIndex ==
    LinkerDone =>
        LET cm2 == ret.out.cm_points_2
        IN  \A k, l \in 1..Len(cm2) : k # l => cm2[k] # cm2[l]

\* C3 amended: one new index is recorded per linked previous index, the first
\* the comparison reports: cm_points_1 and cm_points_2 have equal length,
\* cm_points_1 is strictly increasing, every previous row that has an equal
\* new row is linked, and no new row before cm_points_2[k] equals the
\* previous row cm_points_1[k].
C3_FirstNewIndexPerPrevious ==
    LinkerDone =>
        LET P == args.image_points_1
            Q == args.image_points_2
            cm1 == ret.out.cm_points_1
            cm2 == ret.out.cm_points_2
        IN  /\ Len(cm1) = Len(cm2)
            /\ \A k \in 1..(Len(cm1) - 1) : cm1[k] < cm1[k + 1]
            /\ \A k \in 1..Len(cm1) : cm1[k] \in 0..(Len(P) - 1)
            /\ \A k \in 1..Len(cm2) : cm2[k] \in 0..(Len(Q) - 1)
            /\ \A h \in 0..(Len(P) - 1) :
                 (\E j \in 0..(Len(Q) - 1) : Row(Q, j) = Row(P, h))
                     => h \in Range(cm1)
            /\ \A k \in 1..Len(cm1) :
                 \A j \in 0..(cm2[k] - 1) : Row(Q, j) # Row(P, cm1[k])

\* two previous rows linked to one new row, which has an equal twin after it
C3_Witness ==
    /\ LinkerDone
    /\ Len(ret.out.cm_points_2) = 2
    /\ ret.out.cm_points_2[1] = ret.out.cm_points_2[2]
    /\ Len(args.image_points_2) = 2
    /\ args.image_points_2[1] = args.image_points_2[2]
    /\ args.image_points_1[1] = args.image_points_2[1]

PnPDone == args.fn = "solve_PnP" /\ ret.done

\* row j (0-based) of each input as the caller laid it out
ObjAt(j) ==
    IF args.initial = 1 THEN args.obj_point[j + 1][1] ELSE args.obj_point[j + 1]
ImgAt(j) ==
    IF args.initial = 1
    THEN <<args.image_point[1][j + 1], args.image_point[2][j + 1]>>
    ELSE args.image_point[j + 1]
AuxAt(j) ==
    IF args.initial = 1
    THEN <<args.rot_vector[1][j + 1], args.rot_vector[2][j + 1]>>
    ELSE args.rot_vector[j + 1]

\* C4: the three arrays solve_PnP returns have equal length and position k of
\* each holds the input row of one and the same index, the k-th entry of the
\* solver's inlier list; without an inlier list they hold all N rows in order.
C4_LockstepPruning ==
    (PnPDone /\ ~ret.out.raised) =>
        LET idx == IF ret.solved.inlier_is_None
                   THEN [j \in 1..args.n |-> j - 1]
                   ELSE [k \in 1..Len(ret.solved.inlier) |->
                            ret.solved.inlier[k][1]]
        IN  /\ Len(ret.out.obj_point) = Len(idx)
            /\ Len(ret.out.image_point) = Len(idx)
            /\ Len(ret.out.rot_vector) = Len(idx)
            /\ \A k \in 1..Len(idx) :
                 /\ ret.out.obj_point[k] = ObjAt(idx[k])
                 /\ ret.out.image_point[k] = ImgAt(idx[k])
                 /\ ret.out.rot_vector[k] = AuxAt(idx[k])

C4_Witness ==
    /\ PnPDone
    /\ ~ret.out.raised
    /\ ~ret.solved.inlier_is_None
    /\ args.n = 5
    /\ ret.solved.inlier = << <<1>>, <<3>>, <<4>> >>
    /\ Len(ret.out.rot_vector) = 3

PlyDone == args.fn = "save_to_ply" /\ ret.done

\* n * |p - centroid| for row r of the accumulated, unscaled cloud
RawDistTimesN(r) == DistTimesN(args.point_cloud, r)

\* C7 as stated: the written vertices are the accumulated points whose
\* distance to the centroid of the unscaled cloud is at most the mean distance
\* plus 300, each multiplied by 200.
C7_FilterThenScale ==
    PlyDone =>
        LET n == Len(args.point_cloud)
            total == SumSeq([r \in 1..n |-> RawDistTimesN(r)])
            stays(r) == n * RawDistTimesN(r + 1) <= total + 300 * n * n
            indx == SelectSeq([r \in 1..n |-> r - 1], stays)
        IN  ret.out.verts =
              [k \in 1..Len(indx) |->
                 [c \in 1..3 |-> 200 * Row(args.point_cloud, indx[k])[c]]
                 \o Row(args.colors, indx[k])]

\* C7 amended: the cloud is scaled by 200 first and filtered afterwards, so in
\* the accumulated cloud's own units a point is written (times 200, with its
\* colour, in order) exactly when its distance to the centroid is strictly
\* less than the mean distance plus 300/200 = 3/2.
C7_ScaleThenFilter ==
    PlyDone =>
        LET n == Len(args.point_cloud)
            total == SumSeq([r \in 1..n |-> RawDistTimesN(r)])
            stays(r) == 2 * n * RawDistTimesN(r + 1) < 2 * total + 3 * n * n
            indx == SelectSeq([r \in 1..n |-> r - 1], stays)
        IN  /\ ret.out.vertex_count = Len(indx)
            /\ ret.out.verts =
                 [k \in 1..Len(indx) |->
                    [c \in 1..3 |-> 200 * Row(args.point_cloud, indx[k])[c]]
                    \o Row(args.colors, indx[k])]

\* the cloud t = 0, 0, 1, 2: the last point lies exactly on the threshold
\* (distance 15/4 = mean 9/4 + 3/2) and is not written
C7_Witness ==
    /\ PlyDone
    /\ args.point_cloud =
         <<LinePoint(0), LinePoint(0), LinePoint(1), LinePoint(2)>>
    /\ ret.out.vertex_count = 3

\* ------------------------------------------------------------ driver
\* the intrinsics followed by the projection matrix of each listed transform
RECURSIVE Trajectory(_, _)
Trajectory(Kmat, transforms) ==
    IF Len(transforms) = 0
    THEN Ravel(Kmat, 3)
    ELSE Trajectory(Kmat, SubSeq(transforms, 1, Len(transforms) - 1))
           \o Ravel(MatMul(Kmat, transforms[Len(transforms)]), 4)

\* iterations of the loop that ran to their end, once the loop has been left
Completed == IF total_images = 0 THEN 0 ELSE i + 1

\* C5: when 'q' is seen at the end of iteration k, no further iteration
\* starts, the driver finalizes (once), and what it exports is what iterations
\* 0..k accumulated: the cloud rows appended by them (after the seed row the
\* cloud starts with) and the intrinsics followed by the poses of views
\* 1..k+3.
C5_StopKeepsPartialResults ==
    stopped_at >= 0 =>
        /\ pc \in {"finalize", "done"}
        /\ i = stopped_at
        /\ finalize_count = IF pc = "done" THEN 1 ELSE 0
        /\ Len(view_transforms) = stopped_at + 3
        /\ pose_array = Trajectory(K, view_transforms)
        /\ Len(total_points) = Len(row_owner)
        /\ Len(total_colors) = Len(row_owner)
        /\ row_owner[1] = -1
        /\ \A r \in 2..Len(row_owner) : row_owner[r] \in 0..stopped_at
        /\ \A r \in 2..(Len(row_owner) - 1) :
              row_owner[r] <= row_owner[r + 1]
        /\ pc = "done" =>
              /\ pose_file = pose_array
              /\ ply_file = save_to_ply(total_points, total_colors)

\* a run of at least four images stopped after its first iteration, with rows
\* appended by that iteration, has been exported
C5_Witness ==
    /\ stopped_at = 0
    /\ pc = "done"
    /\ total_images >= 2
    /\ Len(total_points) > 1
    /\ ply_file.vertex_count > 1

\* C6: once a PnP solve has failed (the solver reported no pose), the run has
\* ended with the failure; no later step of the driver is executed.
C6_FailureIsFatal == no_pose_at # {} => pc = "raised"

\* at finalization the trajectory is the 9 intrinsics followed by the
\* projection matrix of every view carried forward, in production order
\* (view 1, view 2, then one per completed iteration), the last entry being
\* pose_1, and that is what is written: holds in every run
TrajectoryAtFinalization ==
    pc \in {"finalize", "done"} =>
        /\ Len(view_transforms) = 2 + Completed
        /\ Len(pose_array) = 9 + 12 * Len(view_transforms)
        /\ pose_array = Trajectory(K, view_transforms)
        /\ SubSeq(pose_array, 1, 9) = Ravel(K, 3)
        /\ SubSeq(pose_array, 10, 21) = Ravel(MatMul(K, view_transforms[1]), 4)
        /\ SubSeq(pose_array, Len(pose_array) - 11, Len(pose_array))
              = Ravel(pose_1, 4)
        /\ pc = "done" => pose_file = pose_array

\* the trajectory holds an entry for the view of the iteration under way,
\* whose pose has not been carried forward yet
PendingEntry == Len(pose_array) > 9 + 12 * Len(view_transforms)

ScaledEntries == {<<1, 1>>, <<2, 2>>, <<1, 3>>, <<2, 3>>}

\* C9: at every point of the run K is the matrix of K.txt with exactly the
\* four focal/centre entries divided once by the factor, and it is the K the
\* projection matrices are made with.
C9_IntrinsicsScaledOnce ==
    /\ \A r \in 1..3, c \in 1..3 :
          K[r][c] * (IF <<r, c>> \in ScaledEntries THEN factor ELSE 1)
            = K_file[r][c]
    /\ pose_array # <<>> => SubSeq(pose_array, 1, 9) = Ravel(K, 3)
    /\ pc \in {"triangulate", "refine", "advance", "pause"} =>
          pose_2 = MatMul(K, transform_matrix_1)
    /\ pc \notin {"bootstrap", "raised"} =>
          pose_1 = MatMul(K, view_transforms[Len(view_transforms)])

\* two iterations and the finalization have run
C9_Witness ==
    /\ pc = "done"
    /\ Completed = 2
    /\ factor = 4
    /\ K[1][1] = 4

\* C10: with the toggle on, the refine step never ends the run.
C10_RefineNeverEndsRun ==
    bundle_adjustmenet_enabled =>
        ~(pc = "raised" /\ raised_by = "compute_bundle_adjustment")

\* ---------------------------------------------- 2D-3D parallelism
\* the track a keypoint of image v belongs to: no two tracks share a pixel
\* row in one image
TrackAt(v, obs) == (obs[2] - v) \div 2

\* a row of points_3d as (x, y, z), from the N x 3 and the N x 1 x 3 layout
XYZ(row) == IF Len(row) = 1 THEN row[1] ELSE row

\* the 3D point triangulation gives for the single correspondence (a, b)
PointOf(P0, P1, a, b) ==
    LET cloud == triangulation(P0, P1, <<a>>, <<b>>)[3]
    IN  <<cloud[1][1], cloud[2][1], cloud[3][1]>>

\* points_3d has one entry per row of features_1, and entry j is the point
\* triangulated from the correspondence (a column of features_0, which the
\* driver holds as 2 x N here) whose shared-view observation is features_1[j]
OnePointPerObservation ==
    LET f1 == link_call.features_1
        p3 == link_call.points_3d
    IN  /\ Len(p3) = Len(f1)
        /\ \A j \in 1..Len(f1) :
              \E c \in 1..Len(features_0[1]) :
                LET a == <<features_0[1][c], features_0[2][c]>>
                IN  /\ TrackAt(link_call.image - 1, a)
                         = TrackAt(link_call.image, f1[j])
                    /\ XYZ(p3[j]) = PointOf(pose_0, pose_1, a, f1[j])

\* the three arrays handed to solve_PnP have one length, and position k of
\* them is the 3D point, the new-view observation and the shared-view
\* observation of one track
PnPInputsShareTrack ==
    LET f1 == link_call.features_1
        idx == link_call.cm_points_0
    IN  /\ Len(link_call.obj_point) = Len(idx)
        /\ Len(link_call.cm_points_2) = Len(idx)
        /\ Len(link_call.cm_points_cur) = Len(idx)
        /\ \A k \in 1..Len(idx) :
              /\ link_call.obj_point[k] = link_call.points_3d[idx[k] + 1]
              /\ TrackAt(link_call.image, f1[idx[k] + 1])
                   = TrackAt(link_call.image, link_call.cm_points_cur[k])
              /\ TrackAt(link_call.image, f1[idx[k] + 1])
                   = TrackAt(link_call.image + 1, link_call.cm_points_2[k])

\* C11: at every find_common_points call of the loop, points_3d is parallel
\* to features_1 (entry j triangulated from the correspondence observed at
\* features_1[j]), and so points_3d[cm_points_0], cm_points_2 and
\* cm_points_cur are aligned: equal length, position k belongs to one track.
C11_Parallelism ==
    (pc = "triangulate" /\ link_call.called) =>
        OnePointPerObservation /\ PnPInputsShareTrack

\* the part of it about points_3d and features_1 alone: holds in every run
PointsParallelToFeatures ==
    (pc = "triangulate" /\ link_call.called) => OnePointPerObservation

\* ---------------------------------------------------- the global cloud
\* s is an initial segment of t
IsPrefix(s, t) == Len(s) <= Len(t) /\ SubSeq(t, 1, Len(s)) = s

\* C12: from the bootstrap on, total_points and total_colors have the same
\* number of rows and every row was appended by an iteration of the loop, so
\* the cloud handed to save_to_ply has no vertex that no iteration produced.
C12_CloudFromIterations ==
    pc \notin {"bootstrap", "raised"} =>
        /\ Len(total_points) = Len(total_colors)
        /\ Len(total_points) = Len(row_owner)
        /\ \A r \in 1..Len(row_owner) : row_owner[r] \in 0..i

\* the part of it about row counts, with every row but the first appended
\* by an iteration: holds in every run
CloudRowsPaired ==
    pc \notin {"bootstrap", "raised"} =>
        /\ Len(total_points) = Len(total_colors)
        /\ Len(total_points) = Len(row_owner)
        /\ row_owner[1] = -1
        /\ total_points[1] = <<0, 0, 0>>
        /\ total_colors[1] = <<0, 0, 0>>
        /\ \A r \in 2..Len(row_owner) : row_owner[r] \in 0..i

\* rows already in the cloud are neither removed nor altered: holds in every
\* run
CloudAppendOnly ==
    [][/\ IsPrefix(total_points, total_points')
       /\ IsPrefix(total_colors, total_colors')]_vars
====
